---- MODULE Spec2Model ----
(***************************************************************************)
(* Model of the broker_parser repository: the legacy converter             *)
(* (broker_data_parser.py: BrokerDataParser, transform_data) and the       *)
(* packaged one (broker_parser/brokers/pellegrini/parser.py:               *)
(* PellegriniParser).                                                      *)
(*                                                                         *)
(* A Python str is a sequence of one-character strings.  A table cell is   *)
(* a record [t, s, f]: t = "str" with the text in s, or t = "float" with   *)
(* the number in f (pandas gives the float NaN for an empty cell).  A      *)
(* float is [k, m, e]: k = "num" denotes m * 10^(-e), kept normalised (no  *)
(* trailing zero in the fraction), k = "nan" and k = "inf" are the         *)
(* non-finite floats.                                                      *)
(***************************************************************************)
EXTENDS Integers, Sequences, FiniteSets, TLC

VARIABLES
    fn,               \* the function a direct call has run ("idle" before it)
    arg,              \* the argument of the direct call
    ret,              \* what the direct call gave: [exc, val]
    entry,            \* the entry point a file is given to
    input_file,       \* the file at the path given: [exists, suffix, encoding, columns]
    valid,            \* what validate_file gave for the file ("pending" before it)
    header,           \* the input table's column names, in column order
    rows,             \* the input table's rows
    pc,               \* where the entry point is
    idx,              \* the row the row loop is at
    actual_columns,   \* BrokerDataParser.actual_columns
    parsed_data,      \* transform_data's parsed_data
    operations,       \* parse_file's operations
    _base_fund_name,  \* PellegriniParser._base_fund_name
    _especies_df,     \* PellegriniParser._especies_df
    emitted,          \* history: the rows a record was appended for
    result,           \* what the caller of the entry point gets
    output_file       \* the rows of the written output file

callVars == <<fn, arg, ret>>

fileVars ==
    <<entry, input_file, valid, header, rows, pc, idx, actual_columns, parsed_data, operations,
      _base_fund_name, _especies_df, emitted, result, output_file>>

vars == <<callVars, fileVars>>

\* ------------------------------------------------------------------ bounds

\* longest exhaustively enumerated cell text
MaxStrLen == 4

\* most rows of an input table
MaxRows == 2

\* most rows of the lookup table in a direct call of _get_ticker_for_fund
MaxEspecies == 2

\* ------------------------------------------------------------- characters

DigitChars == <<"0", "1", "2", "3", "4", "5", "6", "7", "8", "9">>

Digits == {DigitChars[i] : i \in 1..10}

DigitVal(c) == (CHOOSE i \in 1..10 : DigitChars[i] = c) - 1

RECURSIVE DigitsToNat(_)
DigitsToNat(s) ==
    IF s = <<>> THEN 0
    ELSE 10 * DigitsToNat(SubSeq(s, 1, Len(s) - 1)) + DigitVal(s[Len(s)])

RECURSIVE Pow10(_)
Pow10(n) == IF n = 0 THEN 1 ELSE 10 * Pow10(n - 1)

\* str.replace(c, ""): every occurrence of the character removed
Remove(s, c) == SelectSeq(s, LAMBDA x : x # c)

\* c in s
Contains(s, c) == \E i \in 1..Len(s) : s[i] = c

\* s.find(c): index of the first occurrence, 0 when there is none
Find(s, cs) ==
    IF \E i \in 1..Len(s) : s[i] \in cs
    THEN CHOOSE i \in 1..Len(s) : s[i] \in cs /\ \A j \in 1..(i - 1) : s[j] \notin cs
    ELSE 0

Count(s, c) == Cardinality({i \in 1..Len(s) : s[i] = c})

RECURSIVE LStrip(_)
LStrip(s) == IF s # <<>> /\ Head(s) = " " THEN LStrip(Tail(s)) ELSE s

RECURSIVE RStrip(_)
RStrip(s) ==
    IF s # <<>> /\ s[Len(s)] = " " THEN RStrip(SubSeq(s, 1, Len(s) - 1)) ELSE s

\* str.strip()
Strip(s) == RStrip(LStrip(s))

\* ------------------------------------------------------------------ floats

RECURSIVE Normalize(_, _)
Normalize(m, e) ==
    IF e > 0 /\ m % 10 = 0 THEN Normalize(m \div 10, e - 1)
    ELSE [k |-> "num", m |-> m, e |-> e]

Zero == [k |-> "num", m |-> 0, e |-> 0]

NaN == [k |-> "nan", m |-> 0, e |-> 0]

Inf == [k |-> "inf", m |-> 1, e |-> 0]

\* unary minus; -nan is nan, -0.0 == 0.0
Neg(x) == IF x.k = "nan" THEN x ELSE [x EXCEPT !.m = 0 - x.m]

\* abs()
Abs(x) == IF x.m < 0 THEN Neg(x) ELSE x

\* ------------------------------------------------------------------- cells

StrCell(s) == [t |-> "str", s |-> s, f |-> Zero]

FloatCell(x) == [t |-> "float", s |-> <<>>, f |-> x]

NaNCell == FloatCell(NaN)

\* pd.isna(value) of a scalar cell
isna(v) == v.t = "float" /\ v.f.k = "nan"

\* isinstance(value, float)
IsFloat(v) == v.t = "float"

RECURSIVE NatToDigits(_)
NatToDigits(n) ==
    IF n < 10 THEN <<DigitChars[n + 1]>>
    ELSE NatToDigits(n \div 10) \o <<DigitChars[(n % 10) + 1]>>

\* the fraction digits of m * 10^(-e), e of them, zero padded on the left
FracDigits(m, e) ==
    LET d == NatToDigits(m % Pow10(e))
    IN  [i \in 1..(e - Len(d)) |-> "0"] \o d

\* repr of a float (the range where Python prints no exponent)
FloatRepr(x) ==
    IF x.k = "nan" THEN <<"n", "a", "n">>
    ELSE IF x.k = "inf"
    THEN (IF x.m < 0 THEN <<"-">> ELSE <<>>) \o <<"i", "n", "f">>
    ELSE LET a == IF x.m < 0 THEN 0 - x.m ELSE x.m
         IN  (IF x.m < 0 THEN <<"-">> ELSE <<>>)
             \o NatToDigits(a \div Pow10(x.e))
             \o <<".">>
             \o (IF x.e = 0 THEN <<"0">> ELSE FracDigits(a, x.e))

\* str(value)
PyStr(v) == IF v.t = "str" THEN v.s ELSE FloatRepr(v.f)

\* --------------------------------------------------------- float(string)

UpperLetters ==
    <<"A", "B", "C", "D", "E", "F", "G", "H", "I", "J", "K", "L", "M", "N",
      "O", "P", "Q", "R", "S", "T", "U", "V", "W", "X", "Y", "Z", "<D3>">>

LowerLetters ==
    <<"a", "b", "c", "d", "e", "f", "g", "h", "i", "j", "k", "l", "m", "n",
      "o", "p", "q", "r", "s", "t", "u", "v", "w", "x", "y", "z", "<F3>">>

LowerChar(c) ==
    IF \E i \in 1..Len(UpperLetters) : UpperLetters[i] = c
    THEN LowerLetters[CHOOSE i \in 1..Len(UpperLetters) : UpperLetters[i] = c]
    ELSE c

\* str.lower()
Lower(s) == [i \in 1..Len(s) |-> LowerChar(s[i])]

\* digit (["_"] digit)*
IsDigitPart(s) ==
    /\ s # <<>>
    /\ \A i \in 1..Len(s) : s[i] \in Digits \cup {"_"}
    /\ s[1] # "_"
    /\ s[Len(s)] # "_"
    /\ \A i \in 1..(Len(s) - 1) : ~(s[i] = "_" /\ s[i + 1] = "_")

DigitPartVal(s) == DigitsToNat(Remove(s, "_"))

Ok(v) == [exc |-> "none", val |-> v]

Raise(e) == [exc |-> e, val |-> Zero]

\* the integer part ip and fraction part fp of a literal, scaled by 10^x
MantissaParts(ip, fp, x) ==
    LET fd == Remove(fp, "_")
        m  == DigitsToNat(Remove(ip, "_") \o fd)
        e  == Len(fd) - x
    IN  IF ~(/\ ip # <<>> \/ fp # <<>>
             /\ ip = <<>> \/ IsDigitPart(ip)
             /\ fp = <<>> \/ IsDigitPart(fp))
        THEN Raise("ValueError")
        ELSE IF e >= 0 THEN Ok(Normalize(m, e))
        ELSE Ok(Normalize(m * Pow10(0 - e), 0))

\* the digits and point of a float literal, scaled by 10^x
Mantissa(u, x) ==
    LET dot == Find(u, {"."})
    IN  IF dot = 0 THEN MantissaParts(u, <<>>, x)
        ELSE MantissaParts(SubSeq(u, 1, dot - 1), SubSeq(u, dot + 1, Len(u)), x)

\* a literal with an exponent: mant "e" xs
Exponent(mant, xs) ==
    LET xd == IF xs # <<>> /\ xs[1] \in {"-", "+"} THEN Tail(xs) ELSE xs
    IN  IF ~IsDigitPart(xd) THEN Raise("ValueError")
        ELSE Mantissa(mant, IF xs[1] = "-" THEN 0 - DigitPartVal(xd)
                            ELSE DigitPartVal(xd))

\* a decimal literal whose first "e" or "E" is at ex, 0 when it has none
Decimal(u, ex) ==
    IF ex = 0 THEN Mantissa(u, 0)
    ELSE Exponent(SubSeq(u, 1, ex - 1), SubSeq(u, ex + 1, Len(u)))

\* a literal without its sign, low its lower-case form
Unsigned(u, low) ==
    IF low = <<"n", "a", "n">> THEN Ok(NaN)
    ELSE IF low \in {<<"i", "n", "f">>,
                     <<"i", "n", "f", "i", "n", "i", "t", "y">>}
    THEN Ok(Inf)
    ELSE Decimal(u, Find(low, {"e"}))

\* the result r of a call, negated when negative and r is a value
Signed(negative, r) ==
    IF r.exc = "none" /\ negative THEN Ok(Neg(r.val)) ELSE r

\* float(t) of a str without surrounding blanks
Stripped(t) ==
    IF t # <<>> /\ t[1] \in {"-", "+"}
    THEN Signed(t[1] = "-", Unsigned(Tail(t), Lower(Tail(t))))
    ELSE Unsigned(t, Lower(t))

\* float(s) of a str: surrounding blanks, a sign, then inf, infinity, nan or a
\* decimal literal with an optional exponent
PyFloat(s) == Stripped(Strip(s))

\* ------------------------------------------------------ numeric cleaning

\* except <excs>: return 0.0
ExceptReturnZero(excs, r) == IF r.exc \in excs THEN Ok(Zero) ELSE r

\* BrokerDataParser._clean_numeric_value
_clean_numeric_value(value) ==
    IF isna(value) THEN Ok(Zero)
    ELSE LET cleaned == Remove(Remove(Remove(PyStr(value), "$"), " "), ",")
         IN  ExceptReturnZero({"ValueError"}, PyFloat(cleaned))

\* PellegriniParser._clean_numeric
_clean_numeric(value) ==
    IF IsFloat(value) THEN Ok(value.f)
    ELSE LET cleaned     == Remove(Remove(Remove(PyStr(value), "$"), ","), " ")
             is_negative == Contains(cleaned, "-")
             parsed      == PyFloat(Remove(cleaned, "-"))
         IN  ExceptReturnZero({"ValueError", "TypeError"},
                              Signed(is_negative, parsed))

\* ------------------------------------------------------------------ dates

\* s.split(c)
RECURSIVE Split(_, _)
Split(s, c) ==
    LET i == Find(s, {c})
    IN  IF i = 0 THEN <<s>>
        ELSE <<SubSeq(s, 1, i - 1)>> \o Split(SubSeq(s, i + 1, Len(s)), c)

IsDigits(s) == \A i \in 1..Len(s) : s[i] \in Digits

\* %d of strptime: 3[0-1]|[1-2]\d|0[1-9]|[1-9]| [1-9]
IsDayField(t) ==
    \/ Len(t) = 1 /\ t[1] \in Digits \ {"0"}
    \/ /\ Len(t) = 2
       /\ \/ t[1] \in {"0", " "} /\ t[2] \in Digits \ {"0"}
          \/ t[1] \in {"1", "2"} /\ t[2] \in Digits
          \/ t[1] = "3" /\ t[2] \in {"0", "1"}

\* %m of strptime: 1[0-2]|0[1-9]|[1-9]
IsMonthField(t) ==
    \/ Len(t) = 1 /\ t[1] \in Digits \ {"0"}
    \/ /\ Len(t) = 2
       /\ \/ t[1] = "0" /\ t[2] \in Digits \ {"0"}
          \/ t[1] = "1" /\ t[2] \in {"0", "1", "2"}

\* %Y of strptime: \d\d\d\d
IsYearField(t) == Len(t) = 4 /\ IsDigits(t)

IsLeap(y) == y % 4 = 0 /\ (y % 100 # 0 \/ y % 400 = 0)

DaysInMonth(m, y) ==
    IF m = 2 THEN (IF IsLeap(y) THEN 29 ELSE 28)
    ELSE IF m \in {4, 6, 9, 11} THEN 30 ELSE 31

\* the dates datetime can hold
IsCalendarDate(y, m, d) ==
    /\ y \in 1..9999
    /\ m \in 1..12
    /\ d \in 1..DaysInMonth(m, y)

NoDate == [y |-> 0, m |-> 0, d |-> 0]

\* datetime.strptime(value, "%d/%m/%Y")
strptime(value) ==
    IF value.t # "str" THEN [exc |-> "TypeError", val |-> NoDate]
    ELSE LET f == Split(value.s, "/")
         IN  IF ~(Len(f) = 3 /\ IsDayField(f[1]) /\ IsMonthField(f[2])
                    /\ IsYearField(f[3]))
             THEN [exc |-> "ValueError", val |-> NoDate]
             ELSE LET d == DigitsToNat(Remove(f[1], " "))
                      m == DigitsToNat(f[2])
                      y == DigitsToNat(f[3])
                  IN  IF IsCalendarDate(y, m, d)
                      THEN [exc |-> "none", val |-> [y |-> y, m |-> m, d |-> d]]
                      ELSE [exc |-> "ValueError", val |-> NoDate]

\* a number as at least n digits
Pad(n, x) ==
    LET d == NatToDigits(x)
    IN  [i \in 1..(n - Len(d)) |-> "0"] \o d

\* a formatter that keeps the day first
strftime_day_first(date) ==
    Pad(2, date.d) \o <<"/">> \o Pad(2, date.m) \o <<"/">> \o Pad(4, date.y)

\* date.strftime("%m/%d/%Y")
strftime(date) ==
    Pad(2, date.m) \o <<"/">> \o Pad(2, date.d) \o <<"/">> \o Pad(4, date.y)

\* BrokerDataParser._format_date
_format_date(date_str) ==
    IF isna(date_str) THEN Ok(<<>>)
    ELSE LET date == strptime(date_str)
         IN  IF date.exc # "none" THEN Ok(<<>>) ELSE Ok(strftime(date.val))

\* ---------------------------------------------------------------- columns
\* Column names are whole strings; a character outside ASCII is written by
\* its code point, so "Liquidaci<F3>n" is the accented name and
\* "Liquidaci<C3><B3>n" its UTF-8 bytes read as Latin-1.

Keys ==
    <<"tipo_liquidacion", "fecha_concertacion", "tipo_cuota", "numero",
      "cuotapartes", "valor_cuota", "inversion_neta">>

KeySet == {Keys[i] : i \in 1..Len(Keys)}

\* BrokerDataParser.column_mapping
column_mapping ==
    [ tipo_liquidacion |->
          <<"Tipo de Liquidaci<F3>n", "Tipo de Liquidacion",
            "Tipo de Liquidaci<F3>n", "Tipo de Liquidaci<C3><B3>n">>,
      fecha_concertacion |->
          <<"Fecha de Concertaci<F3>n", "Fecha de Concertacion",
            "Fecha de Concertaci<F3>n", "Fecha de Concertaci<C3><B3>n">>,
      tipo_cuota |-> <<"Tipo de Cuota">>,
      numero |-> <<"N<FA>mero", "Numero", "N<FA>mero", "N<C3><BA>mero">>,
      cuotapartes |-> <<"Cuotapartes">>,
      valor_cuota |-> <<"Valor Cuota">>,
      inversion_neta |->
          <<"Inversi<F3>n Neta", "Inversion Neta", "Inversi<F3>n Neta",
            "Inversi<C3><B3>n Neta">> ]

\* PellegriniParser.COLUMN_MAPPING
COLUMN_MAPPING ==
    [ tipo |-> "Tipo de Liquidaci<F3>n",
      fecha |-> "Fecha de Concertaci<F3>n",
      tipo_cuota |-> "Tipo de Cuota",
      numero |-> "N<FA>mero",
      cantidad |-> "Cuotapartes",
      precio |-> "Valor Cuota",
      importe |-> "Inversi<F3>n Neta" ]

\* name in df.columns
InColumns(name, columns) == \E i \in 1..Len(columns) : columns[i] = name

\* a resolver that takes the first column of the header that is a variant
RECURSIVE _find_column_header_order(_, _)
_find_column_header_order(columns, possible_names) ==
    IF columns = <<>> THEN [exc |-> "ValueError", val |-> ""]
    ELSE IF InColumns(Head(columns), possible_names)
    THEN [exc |-> "none", val |-> Head(columns)]
    ELSE _find_column_header_order(Tail(columns), possible_names)

\* BrokerDataParser._find_column
RECURSIVE _find_column(_, _)
_find_column(columns, possible_names) ==
    IF possible_names = <<>> THEN [exc |-> "ValueError", val |-> ""]
    ELSE IF InColumns(Head(possible_names), columns)
    THEN [exc |-> "none", val |-> Head(possible_names)]
    ELSE _find_column(columns, Tail(possible_names))

\* actual_columns = {}
Unbound == [k \in KeySet |-> ""]

RECURSIVE InitColumnsFrom(_, _, _)
InitColumnsFrom(columns, i, bound) ==
    IF i > Len(Keys) THEN [exc |-> "none", val |-> bound]
    ELSE LET r == _find_column(columns, column_mapping[Keys[i]])
         IN  IF r.exc # "none" THEN [exc |-> r.exc, val |-> bound]
             ELSE InitColumnsFrom(columns, i + 1,
                                  [bound EXCEPT ![Keys[i]] = r.val])

\* BrokerDataParser._initialize_columns: the bindings made, and the error
\* of the first field no variant of which is a column
_initialize_columns(columns) == InitColumnsFrom(columns, 1, Unbound)

\* ------------------------------------------------------------------- text

\* s.find(p) + 1: where p first occurs in s, 0 when it does not
FindSub(s, p) ==
    LET hits == {i \in 1..(Len(s) - Len(p) + 1) : SubSeq(s, i, i + Len(p) - 1) = p}
    IN  IF hits = {} THEN 0 ELSE CHOOSE i \in hits : \A j \in hits : i <= j

\* p in s
HasSub(s, p) == FindSub(s, p) # 0

\* s.startswith(p)
StartsWith(s, p) == Len(p) <= Len(s) /\ SubSeq(s, 1, Len(p)) = p

\* s.replace(p, r, 1)
ReplaceFirst(s, p, r) ==
    LET i == FindSub(s, p)
    IN  IF i = 0 THEN s
        ELSE SubSeq(s, 1, i - 1) \o r \o SubSeq(s, i + Len(p), Len(s))

\* s.replace(p, r), p not empty
RECURSIVE ReplaceAll(_, _, _)
ReplaceAll(s, p, r) ==
    LET i == FindSub(s, p)
    IN  IF i = 0 THEN s
        ELSE SubSeq(s, 1, i - 1) \o r
                 \o ReplaceAll(SubSeq(s, i + Len(p), Len(s)), p, r)

TitleText ==
    <<"F", "o", "n", "d", "o", " ", "P", "E", "L", "L", "E", "G", "R", "I",
      "N", "I", " ", "R", "E", "N", "T", "A", " ", "P", "E", "S", "O", "S">>

SecurityNameText ==
    <<"P", "E", "L", "L", "E", "G", "R", "I", "N", "I", " ", "R", "E", "N",
      "T", "A", " ", "P", "E", "S", "O", "S">>

RescateText == <<"R", "e", "s", "c", "a", "t", "e">>

SuscripcionText ==
    <<"S", "u", "s", "c", "r", "i", "p", "c", "i", "<F3>", "n">>

FondoText == <<"F", "o", "n", "d", "o">>

BrokerNameText == <<"P", "e", "l", "l", "e", "g", "r", "i", "n", "i">>

BrokerLowerText == <<"p", "e", "l", "l", "e", "g", "r", "i", "n", "i">>

ClaseText == <<"c", "l", "a", "s", "e", " ">>

\* ------------------------------------------------------------------- rows
\* A row is [columns, cells]: the table's column names and the row's cell
\* under each logical field; a cell is read by its column name.

ColumnNames == UNION {{column_mapping[k][i] : i \in 1..Len(column_mapping[k])} : k \in KeySet}

\* the logical field a column name is a spelling of
LogicalOf(name) ==
    CHOOSE k \in KeySet : InColumns(name, column_mapping[k])

\* row[name]
GetItem(row, name) ==
    IF InColumns(name, row.columns)
    THEN [exc |-> "none", val |-> row.cells[LogicalOf(name)]]
    ELSE [exc |-> "KeyError", val |-> NaNCell]

\* ------------------------------------------------- legacy row normalizer

\* BrokerDataParser._parse_pellegrini_mutual_fund
_parse_pellegrini_mutual_fund(row, columns) ==
    LET cuotapartes    == _clean_numeric_value(GetItem(row, columns["cuotapartes"]).val).val
        valor_cuota    == _clean_numeric_value(GetItem(row, columns["valor_cuota"]).val).val
        inversion_neta == _clean_numeric_value(GetItem(row, columns["inversion_neta"]).val).val
        operation_type ==
            IF GetItem(row, columns["tipo_liquidacion"]).val = StrCell(RescateText)
            THEN "FundRedemption" ELSE "FundSubscription"
        fecha          == GetItem(row, columns["fecha_concertacion"]).val
    IN  [ exc |-> "none",
          val |-> [ operation_type      |-> "MutualFund",
                    fund_operation_type |-> operation_type,
                    agreement_date      |-> _format_date(fecha).val,
                    settlement_term     |-> "T",
                    settlement_date     |-> _format_date(fecha).val,
                    exchange            |-> "Mercado de Fondos",
                    security_amount     |-> Abs(cuotapartes),
                    security_name       |-> SecurityNameText,
                    net_payment_amount  |-> Abs(inversion_neta),
                    currency            |-> "ARS",
                    tipo_cuota          |-> PyStr(GetItem(row, columns["tipo_cuota"]).val),
                    numero              |-> PyStr(GetItem(row, columns["numero"]).val),
                    valor_cuota         |-> valor_cuota ] ]

NoRecord == [operation_type |-> "none"]

\* BrokerDataParser.parse_row
parse_row(row, columns) ==
    LET tipo_liquidacion == GetItem(row, columns["tipo_liquidacion"]).val
    IN  IF isna(tipo_liquidacion) \/ tipo_liquidacion = StrCell(TitleText)
        THEN [exc |-> "ValueError", val |-> NoRecord]
        ELSE _parse_pellegrini_mutual_fund(row, columns)

\* ------------------------------------------------------ ticker resolution
\* _especies_df is [loaded, columns, rows]: loaded is FALSE when the
\* attribute was never set (no lookup file found).

\* a name of the broker and the fund only
FallbackNameWithoutClass(fund_name, share_class) ==
    BrokerLowerText \o <<" ">> \o fund_name

\* the name used when no ticker is found
FallbackName(fund_name, share_class) ==
    BrokerLowerText \o <<" ">> \o fund_name \o <<" ", "-", " ">> \o share_class

\* Series.str.contains(pat, na=False) on one text: pat is searched as a
\* regular expression, in which "." stands for any character; patterns here
\* have no other metacharacter
StrContains(s, pat) ==
    \E i \in 0..(Len(s) - Len(pat)) :
        \A j \in 1..Len(pat) : pat[j] = "." \/ pat[j] = s[i + j]

\* PellegriniParser._get_ticker_for_fund
_get_ticker_for_fund(especies, fund_name, share_class) ==
    LET name1 == Lower(Strip(fund_name))
    IN  IF share_class.t # "str"
        THEN StrCell(FallbackName(name1, PyStr(share_class)))
        ELSE LET class == ClaseText \o Lower(Strip(share_class.s))
                 name2 == IF StartsWith(name1, BrokerLowerText)
                          THEN Strip(ReplaceFirst(name1, BrokerLowerText, <<>>))
                          ELSE name1
                 IsMatch(r) ==
                     /\ r.Instrumento.t = "str"
                     /\ StrContains(Lower(r.Instrumento.s), name2)
                     /\ StrContains(Lower(r.Instrumento.s), class)
             IN  IF ~especies.loaded \/ ~InColumns("Instrumento", especies.columns)
                 THEN StrCell(FallbackName(name2, class))
                 ELSE LET matches == SelectSeq(especies.rows, IsMatch)
                      IN  IF Len(matches) = 0 \/ ~InColumns("Ticker", especies.columns)
                          THEN StrCell(FallbackName(name2, class))
                          ELSE matches[1].Ticker

\* ---------------------------------------------- packaged row normalizer

\* the fund name taken from the first cell of the last row
_extract_fund_name_last_row(columns, table) ==
    IF table = <<>> \/ columns = <<>> THEN BrokerNameText
    ELSE LET fund_name == table[Len(table)][LogicalOf(columns[1])]
         IN  IF fund_name.t # "str" THEN BrokerNameText
             ELSE IF HasSub(Strip(fund_name.s), FondoText)
             THEN Strip(ReplaceAll(Strip(fund_name.s), FondoText, <<>>))
             ELSE Strip(fund_name.s)

\* PellegriniParser._extract_fund_name: the first cell of the first row
_extract_fund_name(columns, table) ==
    IF table = <<>> \/ columns = <<>> THEN BrokerNameText
    ELSE LET fund_name == table[1][LogicalOf(columns[1])]
         IN  IF fund_name.t # "str" THEN BrokerNameText
             ELSE IF HasSub(Strip(fund_name.s), FondoText)
             THEN Strip(ReplaceAll(Strip(fund_name.s), FondoText, <<>>))
             ELSE Strip(fund_name.s)

FundRedemptionText == <<"F", "u", "n", "d", "R", "e", "d", "e", "m", "p", "t", "i", "o", "n">>

FundSubscriptionText ==
    <<"F", "u", "n", "d", "S", "u", "b", "s", "c", "r", "i", "p", "t", "i", "o", "n">>

\* PellegriniParser.OPERATION_TYPE_MAPPING, as pairs of label and name
OPERATION_TYPE_MAPPING ==
    << <<RescateText, FundRedemptionText>>,
       <<SuscripcionText, FundSubscriptionText>> >>

\* the label written as it is
MappingGetLabel(description) == description

\* OPERATION_TYPE_MAPPING.get(description, description)
MappingGet(description) ==
    IF \E i \in 1..Len(OPERATION_TYPE_MAPPING) :
           description = StrCell(OPERATION_TYPE_MAPPING[i][1])
    THEN StrCell(OPERATION_TYPE_MAPPING[
             CHOOSE i \in 1..Len(OPERATION_TYPE_MAPPING) :
                 description = StrCell(OPERATION_TYPE_MAPPING[i][1])][2])
    ELSE description

\* PellegriniParser.write_to_excel: the row written for one operation
ExcelRow(op) ==
    [ fund_operation_type |-> MappingGet(op.description),
      agreement_date      |-> strftime(op.date),
      settlement_term     |-> "T",
      settlement_date     |-> strftime(op.date),
      exchange            |-> "Mercado de Fondos",
      security_amount     |-> op.quantity,
      security_name       |-> op.fund_name,
      net_payment_amount  |-> op.total_amount,
      currency            |-> op.currency ]

\* PellegriniParser.write_to_excel: the rows written, or the ValueError of
\* an empty list
write_to_excel(ops) ==
    IF ops = <<>> THEN [exc |-> "ValueError", val |-> <<>>]
    ELSE [exc |-> "none", val |-> [i \in 1..Len(ops) |-> ExcelRow(ops[i])]]

\* str.upper()
Upper(s) ==
    [i \in 1..Len(s) |->
        IF \E j \in 1..Len(LowerLetters) : LowerLetters[j] = s[i]
        THEN UpperLetters[CHOOSE j \in 1..Len(LowerLetters) : LowerLetters[j] = s[i]]
        ELSE s[i]]

\* the kind a keyword of the uppercased label selects, MonetaryFlow when it
\* has none
KeywordKind(label) ==
    IF label.t # "str" THEN "MONETARY_FLOW"
    ELSE IF HasSub(Upper(label.s), <<"C", "O", "M", "P", "R", "A">>) \/ HasSub(Upper(label.s), <<"V", "E", "N", "T", "A">>)
    THEN "TRADE"
    ELSE IF HasSub(Upper(label.s), <<"T", "R", "A", "N", "S", "F", "E", "R", "E", "N", "C", "I", "A">>)
    THEN "MONETARY_FLOW"
    ELSE IF HasSub(Upper(label.s), <<"D", "E", "P", "O", "S", "I", "T", "O">>) \/ HasSub(Upper(label.s), <<"R", "E", "T", "I", "R", "O">>)
    THEN "SECURITY_FLOW"
    ELSE IF HasSub(Upper(label.s), <<"F", "O", "N", "D", "O">>)
    THEN "MUTUAL_FUND"
    ELSE "MONETARY_FLOW"

\* a classifier by keyword
_get_operation_type_by_keyword(operation_type) == KeywordKind(operation_type)

\* PellegriniParser._get_operation_type
_get_operation_type(operation_type) == "MUTUAL_FUND"

None == [kind |-> "None"]

\* PellegriniParser._parse_row: None for a row it gives up on
_parse_row(row, base_fund_name, especies) ==
    LET fecha    == GetItem(row, "Fecha de Concertaci<F3>n")
        date     == strptime(fecha.val)
        cuota    == GetItem(row, "Tipo de Cuota")
        tipo     == GetItem(row, "Tipo de Liquidaci<F3>n")
        cantidad == GetItem(row, "Cuotapartes")
        precio   == GetItem(row, "Valor Cuota")
        importe  == GetItem(row, "Inversi<F3>n Neta")
    IN  IF fecha.exc # "none" THEN None
        ELSE IF isna(fecha.val) THEN None
        ELSE IF date.exc # "none" THEN None
        ELSE IF cuota.exc # "none" \/ tipo.exc # "none" THEN None
        ELSE IF cantidad.exc # "none" \/ precio.exc # "none" \/ importe.exc # "none"
        THEN None
        ELSE [ kind           |-> "MutualFund",
               date           |-> date.val,
               operation_type |-> _get_operation_type(tipo.val),
               description    |-> tipo.val,
               amount         |-> Abs(_clean_numeric(importe.val).val),
               fund_name      |-> _get_ticker_for_fund(especies, base_fund_name, cuota.val),
               quantity       |-> Abs(_clean_numeric(cantidad.val).val),
               nav            |-> _clean_numeric(precio.val).val,
               total_amount   |-> Abs(_clean_numeric(importe.val).val),
               broker         |-> "Pellegrini",
               currency       |-> "ARS" ]

\* ================================================================ inputs

Alphabet == {"$", ",", ".", " ", "-", "0", "5", "x"}

AllStrings(n) == UNION {[1..k -> Alphabet] : k \in 0..n}

\* the amounts the documentation names, and spellings float() knows
ExampleStrings ==
    { <<"$", " ", "1", ",", "2", "3", "4", ".", "5", "6">>,
      <<"-", "5", "0", "0">>,
      <<"$", " ", "1", ".", "2", "3", "4", ",", "0", "0">>,
      <<"1", "2", "3", "4", ".", "0", "0">>,
      <<"$", " ", "-", "1", ",", "2", "3", "4", ".", "5", "0">>,
      <<"1", "e", "3">>,
      <<"1", "_", "0", "0", "0">>,
      <<"+", "5">>,
      <<"i", "n", "f">>,
      <<"n", "a", "n">>,
      <<"a", "b", "c">> }

ExampleFloats == {NaN, Zero, Normalize(-125, 1), Normalize(123456, 2)}

NumInputs ==
    {StrCell(s) : s \in AllStrings(MaxStrLen) \cup ExampleStrings}
        \cup {FloatCell(x) : x \in ExampleFloats}

DayFields ==
    { <<"3", "1">>, <<"3", "0">>, <<"2", "9">>, <<"2", "8">>, <<"0", "1">>, <<"1">>, <<" ", "1">>, <<"0", "0">>,
      <<"3", "2">>, <<"x", "1">> }

MonthFields == {<<"1", "2">>, <<"0", "2">>, <<"2">>, <<"0", "4">>, <<"1", "3">>, <<"0", "0">>}

YearFields == {<<"2", "0", "2", "3">>, <<"2", "0", "2", "4">>, <<"1", "9", "0", "0">>, <<"2", "0", "0", "0">>, <<"0", "0", "0", "0">>, <<"2", "3">>}

Separators == {"/", "-"}

OtherDateStrings ==
    { <<"n", "o", "t", "-", "a", "-", "d", "a", "t", "e">>,
      <<>>,
      <<"3", "1", "/", "1", "2", "/", "2", "0", "2", "3", " ">>,
      <<"3", "1", "/", "1", "2", "/", "2", "0", "2", "3", "/">>,
      <<"3", "1", "/", "1", "2">>,
      <<"2", "0", "2", "3", "/", "1", "2", "/", "3", "1">> }

DateInputs ==
    {StrCell(d \o <<a>> \o m \o <<b>> \o y) :
        d \in DayFields, a \in Separators, m \in MonthFields, b \in Separators,
        y \in YearFields}
        \cup {StrCell(s) : s \in OtherDateStrings}
        \cup {NaNCell, FloatCell(Normalize(45291, 0))}

\* the columns of a table, in the file's order
ColumnsOf(names) ==
    LET all == <<"Tipo de Liquidaci<F3>n", "Tipo de Liquidacion",
                 "Tipo de Liquidaci<C3><B3>n", "Fecha de Concertaci<F3>n",
                 "Fecha de Concertacion", "Fecha de Concertaci<C3><B3>n",
                 "Tipo de Cuota", "N<FA>mero", "Numero", "N<C3><BA>mero",
                 "Cuotapartes", "Valor Cuota", "Inversi<F3>n Neta",
                 "Inversion Neta", "Inversi<C3><B3>n Neta", "Observaciones">>
    IN  SelectSeq(all, LAMBDA n : n \in names)

Reverse(s) == [i \in 1..Len(s) |-> s[Len(s) + 1 - i]]

Spellings(k) == {column_mapping[k][i] : i \in 1..Len(column_mapping[k])}

\* a field, and a header of some of its spellings and two other columns
ColumnInputsOf(k) ==
    UNION { { [columns |-> order, key |-> k] :
                order \in {ColumnsOf(S), Reverse(ColumnsOf(S))} } :
            S \in SUBSET (Spellings(k) \cup {"Cuotapartes", "Observaciones"}) }

ColumnInputs == UNION {ColumnInputsOf(k) : k \in KeySet}

HeaderAccented ==
    <<"Tipo de Liquidaci<F3>n", "Fecha de Concertaci<F3>n", "Tipo de Cuota",
      "N<FA>mero", "Cuotapartes", "Valor Cuota", "Inversi<F3>n Neta">>

HeaderMojibake ==
    <<"Tipo de Liquidaci<C3><B3>n", "Fecha de Concertaci<C3><B3>n",
      "Tipo de Cuota", "N<C3><BA>mero", "Cuotapartes", "Valor Cuota",
      "Inversi<C3><B3>n Neta">>

HeaderNoNumero == SelectSeq(HeaderAccented, LAMBDA n : n # "N<FA>mero")

HeaderNoCuotapartes == SelectSeq(HeaderAccented, LAMBDA n : n # "Cuotapartes")

FileHeaders ==
    {HeaderAccented, HeaderMojibake, HeaderNoNumero, HeaderNoCuotapartes}

Text(s) == StrCell(s)

DateGood == Text(<<"3", "1", "/", "1", "2", "/", "2", "0", "2", "3">>)

DateBad == Text(<<"n", "o", "t", "-", "a", "-", "d", "a", "t", "e">>)

MakeRow(tipo, fecha, cuota, numero, cuotapartes, valor, inversion) ==
    [ tipo_liquidacion   |-> tipo,
      fecha_concertacion |-> fecha,
      tipo_cuota         |-> cuota,
      numero             |-> numero,
      cuotapartes        |-> cuotapartes,
      valor_cuota        |-> valor,
      inversion_neta     |-> inversion ]

\* the title line: the fund's name in the first column, nothing else
TitleRow ==
    MakeRow(Text(TitleText), NaNCell, NaNCell, NaNCell, NaNCell, NaNCell, NaNCell)

\* a dated line with no label
UnlabelledRow ==
    MakeRow(NaNCell, DateGood, Text(<<"A">>), Text(<<"1", "0", "1">>),
            Text(<<"1", "0">>), Text(<<"1", ".", "5">>), Text(<<"1", "5">>))

BadDateRow ==
    MakeRow(Text(RescateText), DateBad, Text(<<"A">>), Text(<<"1", "0", "2">>),
            Text(<<"1", "0">>), Text(<<"1", ".", "5">>), Text(<<"1", "5">>))

RescateRow ==
    MakeRow(Text(RescateText), DateGood, Text(<<"A">>), Text(<<"1", "0", "5">>),
            Text(<<"-", "5", "0", "0">>), Text(<<"2", ".", "5">>), Text(<<"$", " ", "-", "1", ",", "2", "5", "0", ".", "0", "0">>))

SuscripcionRow ==
    MakeRow(Text(SuscripcionText), Text(<<"0", "5", "/", "0", "1", "/", "2", "0", "2", "4">>), Text(<<"B">>),
            FloatCell(Normalize(106, 0)), Text(<<"1", ",", "0", "0", "0">>), Text(<<"1", ".", "5">>),
            Text(<<"$", " ", "1", ",", "5", "0", "0", ".", "0", "0">>))

\* a subscription whose 'Cuotapartes' and 'Inversi<F3>n Neta' cells are empty
EmptyAmountRow ==
    MakeRow(Text(SuscripcionText), DateGood, Text(<<"A">>), Text(<<"1", "0", "7">>),
            NaNCell, Text(<<"1", ".", "5">>), NaNCell)

RowUniverse ==
    {TitleRow, UnlabelledRow, BadDateRow, RescateRow, SuscripcionRow, EmptyAmountRow}

Tables(n) == UNION {[1..k -> RowUniverse] : k \in 0..n}

\* a file of five rows: the title line, a line with an unparseable date and
\* three lines of operations
ExampleFile == <<TitleRow, RescateRow, BadDateRow, SuscripcionRow, RescateRow>>

EspeciesAbsent == [loaded |-> FALSE, columns |-> <<>>, rows |-> <<>>]

EspeciesLoaded ==
    [ loaded  |-> TRUE,
      columns |-> <<"Instrumento", "Ticker">>,
      rows    |->
          << [ Instrumento |-> Text(<<"P", "e", "l", "l", "e", "g", "r", "i", "n", "i", " ", "R", "e", "n", "t", "a", " ", "P", "e", "s", "o", "s", " ", "-", " ", "C", "l", "a", "s", "e", " ", "A">>),
               Ticker      |-> Text(<<"P", "R", "P", "A">>) ],
             [ Instrumento |-> Text(<<"P", "e", "l", "l", "e", "g", "r", "i", "n", "i", " ", "R", "e", "n", "t", "a", " ", "P", "e", "s", "o", "s", " ", "-", " ", "C", "l", "a", "s", "e", " ", "B">>),
               Ticker      |-> Text(<<"P", "R", "P", "B">>) ] >> ]

\* a lookup file without its 'Ticker' column
EspeciesNoTicker ==
    [loaded |-> TRUE, columns |-> <<"Instrumento">>, rows |-> EspeciesLoaded.rows]

EspeciesTables == {EspeciesAbsent, EspeciesLoaded, EspeciesNoTicker}

\* ----------------------------------------------------------- input files
\* A file is [exists, suffix, encoding, columns]: whether the path names a
\* file, the path's suffix, the encoding its text was written in and the
\* names of its header line as they were written.

\* a name with a character outside ASCII, and its UTF-8 bytes read as Latin-1
NonAsciiNames ==
    << <<"Tipo de Liquidaci<F3>n", "Tipo de Liquidaci<C3><B3>n">>,
       <<"Fecha de Concertaci<F3>n", "Fecha de Concertaci<C3><B3>n">>,
       <<"N<FA>mero", "N<C3><BA>mero">>,
       <<"Inversi<F3>n Neta", "Inversi<C3><B3>n Neta">>,
       <<"Tipo de Liquidaci<C3><B3>n", "Tipo de Liquidaci<C3><83><C2><B3>n">>,
       <<"Fecha de Concertaci<C3><B3>n", "Fecha de Concertaci<C3><83><C2><B3>n">>,
       <<"N<C3><BA>mero", "N<C3><83><C2><BA>mero">>,
       <<"Inversi<C3><B3>n Neta", "Inversi<C3><83><C2><B3>n Neta">> >>

IsAscii(name) == \A i \in 1..Len(NonAsciiNames) : NonAsciiNames[i][1] # name

\* bytes.decode("latin1") of name.encode("utf-8")
Utf8AsLatin1(name) ==
    IF IsAscii(name) THEN name
    ELSE NonAsciiNames[CHOOSE i \in 1..Len(NonAsciiNames) : NonAsciiNames[i][1] = name][2]

\* df.columns of pd.read_csv(file, encoding=encoding): the bytes of a UTF-8
\* file read as Latin-1 give two characters for one, the bytes of a Latin-1
\* character are no UTF-8
read_csv(file, encoding) ==
    IF ~file.exists THEN [exc |-> "FileNotFoundError", val |-> <<>>]
    ELSE IF file.encoding = encoding THEN [exc |-> "none", val |-> file.columns]
    ELSE IF encoding = "latin1"
    THEN [exc |-> "none",
          val |-> [i \in 1..Len(file.columns) |-> Utf8AsLatin1(file.columns[i])]]
    ELSE IF \A i \in 1..Len(file.columns) : IsAscii(file.columns[i])
    THEN [exc |-> "none", val |-> file.columns]
    ELSE [exc |-> "UnicodeDecodeError", val |-> <<>>]

\* pd.read_excel(file): the cells of a workbook are text, not bytes
read_excel(file) ==
    IF ~file.exists THEN [exc |-> "FileNotFoundError", val |-> <<>>]
    ELSE [exc |-> "none", val |-> file.columns]

\* transform_data: the reader is chosen by how the path ends
ReadInput(file) ==
    IF file.suffix \in {".xlsx", ".xls"} THEN read_excel(file)
    ELSE IF file.suffix = ".csv" THEN read_csv(file, "latin1")
    ELSE [exc |-> "ValueError", val |-> <<>>]

\* str.lower() of a suffix
LowerSuffix(suffix) == IF suffix \in {".CSV", ".Csv"} THEN ".csv" ELSE suffix

\* BaseBrokerParser._validate_file_exists
_validate_file_exists(file) ==
    IF ~file.exists THEN "FileNotFoundError" ELSE "none"

\* BaseBrokerParser.get_file_extension
get_file_extension == ".csv"

\* BaseBrokerParser._validate_file_extension
_validate_file_extension(file) ==
    IF LowerSuffix(file.suffix) # LowerSuffix(get_file_extension)
    THEN "ValueError" ELSE "none"

\* PellegriniParser._validate_dataframe
_validate_dataframe(columns) ==
    \A k \in DOMAIN COLUMN_MAPPING : InColumns(COLUMN_MAPPING[k], columns)

\* PellegriniParser.validate_file
validate_file(file) ==
    IF _validate_file_exists(file) # "none" THEN FALSE
    ELSE IF _validate_file_extension(file) # "none" THEN FALSE
    ELSE IF read_csv(file, "latin1").exc # "none" THEN FALSE
    ELSE _validate_dataframe(read_csv(file, "latin1").val)

\* a parse_file that looks at the extension before it looks for the file
OpenCsvExtensionFirst(file) ==
    IF _validate_file_extension(file) # "none"
    THEN [exc |-> _validate_file_extension(file), val |-> <<>>]
    ELSE IF _validate_file_exists(file) # "none"
    THEN [exc |-> _validate_file_exists(file), val |-> <<>>]
    ELSE IF read_csv(file, "utf-8").exc # "none"
    THEN [exc |-> "ValueError", val |-> <<>>]
    ELSE read_csv(file, "utf-8")

\* PellegriniParser.parse_file up to the table: the two checks of the path,
\* then the read, whose error is raised again as a ValueError
OpenCsv(file) ==
    IF _validate_file_exists(file) # "none"
    THEN [exc |-> _validate_file_exists(file), val |-> <<>>]
    ELSE IF _validate_file_extension(file) # "none"
    THEN [exc |-> _validate_file_extension(file), val |-> <<>>]
    ELSE IF read_csv(file, "utf-8").exc # "none"
    THEN [exc |-> "ValueError", val |-> <<>>]
    ELSE read_csv(file, "utf-8")

\* the file an entry point reads the columns cols from: written in the
\* encoding the entry point reads with
FileRead(e, cols) ==
    [ exists   |-> TRUE,
      suffix   |-> ".csv",
      encoding |-> IF e = "parse_file" THEN "utf-8" ELSE "latin1",
      columns  |-> cols ]

\* ========================================================== direct calls

Pending == [exc |-> "pending", val |-> Zero]

NoFile ==
    /\ entry = "none"
    /\ input_file = [exists |-> FALSE, suffix |-> "", encoding |-> "utf-8", columns |-> <<>>]
    /\ valid = "pending"
    /\ header = <<>>
    /\ rows = <<>>
    /\ pc = "idle"
    /\ idx = 1
    /\ actual_columns = Unbound
    /\ parsed_data = <<>>
    /\ operations = <<>>
    /\ _base_fund_name = <<>>
    /\ _especies_df = EspeciesAbsent
    /\ emitted = <<>>
    /\ result = [status |-> "pending", exc |-> "none"]
    /\ output_file = [written |-> FALSE, data |-> <<>>]

InitNumeric == fn = "idle" /\ arg \in NumInputs /\ ret = Pending /\ NoFile

CallCleanNumericValue ==
    /\ fn = "idle"
    /\ fn' = "_clean_numeric_value"
    /\ ret' = _clean_numeric_value(arg)
    /\ UNCHANGED <<arg, fileVars>>

CallCleanNumeric ==
    /\ fn = "idle"
    /\ fn' = "_clean_numeric"
    /\ ret' = _clean_numeric(arg)
    /\ UNCHANGED <<arg, fileVars>>

NextNumeric == CallCleanNumericValue \/ CallCleanNumeric

SpecNumeric == InitNumeric /\ [][NextNumeric]_vars

InitDate == fn = "idle" /\ arg \in DateInputs /\ ret = Pending /\ NoFile

CallFormatDate ==
    /\ fn = "idle"
    /\ fn' = "_format_date"
    /\ ret' = _format_date(arg)
    /\ UNCHANGED <<arg, fileVars>>

NextDate == CallFormatDate

SpecDate == InitDate /\ [][NextDate]_vars

InitColumns == fn = "idle" /\ arg \in ColumnInputs /\ ret = Pending /\ NoFile

CallFindColumn ==
    /\ fn = "idle"
    /\ fn' = "_find_column"
    /\ ret' = _find_column(arg.columns, column_mapping[arg.key])
    /\ UNCHANGED <<arg, fileVars>>

NextColumns == CallFindColumn

SpecColumns == InitColumns /\ [][NextColumns]_vars

\* the words of a label
LabelWords ==
    { <<"C", "o", "m", "p", "r", "a">>,
      <<"V", "E", "N", "T", "A">>,
      <<"T", "r", "a", "n", "s", "f", "e", "r", "e", "n", "c", "i", "a">>,
      <<"D", "e", "p", "o", "s", "i", "t", "o">>,
      <<"r", "e", "t", "i", "r", "o">>,
      <<"F", "o", "n", "d", "o">>,
      <<"R", "e", "s", "c", "a", "t", "e">>,
      <<"S", "u", "s", "c", "r", "i", "p", "c", "i", "<F3>", "n">>,
      <<"U", "n", "k", "n", "o", "w", "n">>,
      <<"d", "e", " ", "A", "c", "c", "i", "o", "n", "e", "s">> }

\* labels of one word and of two, and the empty cell
LabelInputs ==
    {StrCell(w) : w \in LabelWords}
        \cup {StrCell(a \o <<" ">> \o b) : a \in LabelWords, b \in LabelWords}
        \cup {NaNCell}

\* rows of Especies.csv: two of the same fund and class, one of another
\* class, one of another fund and one without an instrument
EspeciesRows ==
    { [Instrumento |-> Text(<<"P", "e", "l", "l", "e", "g", "r", "i", "n", "i", " ", "R", "e", "n", "t", "a", " ", "P", "e", "s", "o", "s", " ", "-", " ", "C", "l", "a", "s", "e", " ", "A">>), Ticker |-> Text(<<"P", "R", "P", "A">>)],
      [Instrumento |-> Text(<<"P", "E", "L", "L", "E", "G", "R", "I", "N", "I", " ", "R", "E", "N", "T", "A", " ", "P", "E", "S", "O", "S", " ", "C", "L", "A", "S", "E", " ", "A">>), Ticker |-> Text(<<"P", "R", "P", "A", "2">>)],
      [Instrumento |-> Text(<<"P", "e", "l", "l", "e", "g", "r", "i", "n", "i", " ", "R", "e", "n", "t", "a", " ", "P", "e", "s", "o", "s", " ", "-", " ", "C", "l", "a", "s", "e", " ", "B">>), Ticker |-> Text(<<"P", "R", "P", "B">>)],
      [Instrumento |-> Text(<<"P", "e", "l", "l", "e", "g", "r", "i", "n", "i", " ", "A", "c", "c", "i", "o", "n", "e", "s", " ", "-", " ", "C", "l", "a", "s", "e", " ", "A">>), Ticker |-> Text(<<"P", "A", "C", "A">>)],
      [Instrumento |-> NaNCell, Ticker |-> Text(<<"N", "O", "N", "E">>)] }

\* the lookup table: never loaded, loaded without one of its columns, or
\* loaded with up to MaxEspecies rows
EspeciesInputs ==
    {EspeciesAbsent}
        \cup {[loaded |-> TRUE, columns |-> c, rows |-> EspeciesLoaded.rows] :
                  c \in {<<"Instrumento">>, <<"Ticker">>, <<"Especie", "Moneda">>}}
        \cup UNION {{[loaded |-> TRUE, columns |-> <<"Instrumento", "Ticker">>, rows |-> t] :
                        t \in [1..k -> EspeciesRows]} : k \in 0..MaxEspecies}

FundNameInputs ==
    { <<"P", "E", "L", "L", "E", "G", "R", "I", "N", "I", " ", "R", "E", "N", "T", "A", " ", "P", "E", "S", "O", "S">>,
      <<" ", "R", "e", "n", "t", "a", " ", "P", "e", "s", "o", "s", " ">>,
      <<"P", "e", "l", "l", "e", "g", "r", "i", "n", "i", " ", "P", "e", "l", "l", "e", "g", "r", "i", "n", "i", " ", "R", "e", "n", "t", "a">>,
      <<"R", "e", "n", "t", "a", " ", "P", ".">>,
      <<"R", "e", "n", "t", "a", " ", "F", "i", "j", "a">> }

ShareClassInputs == {Text(<<"A">>), Text(<<" ", "b", " ">>), Text(<<"C">>), NaNCell}

TickerInputs ==
    [especies : EspeciesInputs, fund_name : FundNameInputs, share_class : ShareClassInputs]

InitTicker == fn = "idle" /\ arg \in TickerInputs /\ ret = Pending /\ NoFile

CallGetTickerForFund ==
    /\ fn = "idle"
    /\ fn' = "_get_ticker_for_fund"
    /\ ret' = [exc |-> "none",
               val |-> _get_ticker_for_fund(arg.especies, arg.fund_name, arg.share_class)]
    /\ UNCHANGED <<arg, fileVars>>

NextTicker == CallGetTickerForFund

SpecTicker == InitTicker /\ [][NextTicker]_vars

InitClassify == fn = "idle" /\ arg \in LabelInputs /\ ret = Pending /\ NoFile

CallGetOperationType ==
    /\ fn = "idle"
    /\ fn' = "_get_operation_type"
    /\ ret' = [exc |-> "none", val |-> _get_operation_type(arg)]
    /\ UNCHANGED <<arg, fileVars>>

NextClassify == CallGetOperationType

SpecClassify == InitClassify /\ [][NextClassify]_vars

\* ========================================================= file processing
\* transform_data(input_file, output_file) and PellegriniParser.parse_file
\* on a table that was read: one step for the stage before the row loop,
\* one for each turn of the loop, one for what follows the loop.

\* for index, row in df.iterrows()
RowAt(i) == [columns |-> header, cells |-> rows[i]]

Returned == [status |-> "returned", exc |-> "none"]

Raised(e) == [status |-> "raised", exc |-> e]

Init ==
    /\ fn = "idle" /\ arg = NaNCell /\ ret = Pending
    /\ entry \in {"transform_data", "parse_file"}
    /\ header \in FileHeaders
    /\ input_file = FileRead(entry, header)
    /\ valid = "pending"
    /\ rows \in Tables(MaxRows) \cup {ExampleFile}
    /\ pc = "start"
    /\ idx = 1
    /\ actual_columns = Unbound
    /\ parsed_data = <<>>
    /\ operations = <<>>
    /\ _base_fund_name = <<>>
    /\ _especies_df \in IF entry = "parse_file" THEN EspeciesTables
                        ELSE {EspeciesAbsent}
    /\ emitted = <<>>
    /\ result = [status |-> "pending", exc |-> "none"]
    /\ output_file = [written |-> FALSE, data |-> <<>>]

\* transform_data: the table is read, BrokerDataParser() is made and
\* _initialize_columns binds the columns; an error of the read and the
\* ValueError of the binding leave transform_data
TransformBind ==
    /\ entry = "transform_data" /\ pc = "start"
    /\ \E f \in {ReadInput(input_file)}, r \in {_initialize_columns(header)} :
           IF f.exc # "none"
           THEN pc' = "done" /\ result' = Raised(f.exc) /\ UNCHANGED actual_columns
           ELSE /\ actual_columns' = r.val
                /\ IF r.exc = "none"
                   THEN pc' = "rows" /\ UNCHANGED result
                   ELSE pc' = "done" /\ result' = Raised(r.exc)
    /\ UNCHANGED <<callVars, entry, input_file, valid, header, rows, idx, parsed_data, operations,
                   _base_fund_name, _especies_df, emitted, output_file>>

\* a row loop with no handler around parse_row: its exception leaves
\* transform_data
TransformRowAborting ==
    /\ entry = "transform_data" /\ pc = "rows" /\ idx <= Len(rows)
    /\ \E r \in {parse_row(RowAt(idx), actual_columns)} :
           IF r.exc = "none"
           THEN /\ parsed_data' = Append(parsed_data, r.val)
                /\ emitted' = Append(emitted, idx)
                /\ idx' = idx + 1
                /\ UNCHANGED <<pc, result>>
           ELSE /\ pc' = "done"
                /\ result' = Raised(r.exc)
                /\ UNCHANGED <<parsed_data, emitted, idx>>
    /\ UNCHANGED <<callVars, entry, input_file, valid, header, rows, actual_columns, operations,
                   _base_fund_name, _especies_df, output_file>>

\* transform_data: one turn of the row loop; an exception of parse_row is
\* logged and the loop goes on
TransformRow ==
    /\ entry = "transform_data" /\ pc = "rows" /\ idx <= Len(rows)
    /\ \E r \in {parse_row(RowAt(idx), actual_columns)} :
           IF r.exc = "none"
           THEN /\ parsed_data' = Append(parsed_data, r.val)
                /\ emitted' = Append(emitted, idx)
           ELSE UNCHANGED <<parsed_data, emitted>>
    /\ idx' = idx + 1
    /\ UNCHANGED <<callVars, entry, input_file, valid, header, rows, pc, actual_columns, operations,
                   _base_fund_name, _especies_df, result, output_file>>

\* transform_data after the loop: no parsed row is a ValueError, else the
\* records are written to the output file
TransformFinish ==
    /\ entry = "transform_data" /\ pc = "rows" /\ idx > Len(rows)
    /\ pc' = "done"
    /\ IF parsed_data = <<>>
       THEN result' = Raised("ValueError") /\ UNCHANGED output_file
       ELSE /\ result' = Returned
            /\ output_file' = [written |-> TRUE, data |-> parsed_data]
    /\ UNCHANGED <<callVars, entry, input_file, valid, header, rows, idx, actual_columns,
                   parsed_data, operations, _base_fund_name, _especies_df,
                   emitted>>

\* parse_file: the path is checked, the table is read and the base fund
\* name taken from it
ParseFileRead ==
    /\ entry = "parse_file" /\ pc = "start"
    /\ \E f \in {OpenCsv(input_file)} :
           IF f.exc # "none"
           THEN pc' = "done" /\ result' = Raised(f.exc) /\ UNCHANGED _base_fund_name
           ELSE /\ _base_fund_name' = _extract_fund_name(header, rows)
                /\ pc' = "rows"
                /\ UNCHANGED result
    /\ UNCHANGED <<callVars, entry, input_file, valid, header, rows, idx, actual_columns,
                   parsed_data, operations, _especies_df, emitted, output_file>>

\* parse_file: one turn of the row loop
ParseFileRow ==
    /\ entry = "parse_file" /\ pc = "rows" /\ idx <= Len(rows)
    /\ \E operation \in {_parse_row(RowAt(idx), _base_fund_name, _especies_df)} :
           IF operation # None
           THEN /\ operations' = Append(operations, operation)
                /\ emitted' = Append(emitted, idx)
           ELSE UNCHANGED <<operations, emitted>>
    /\ idx' = idx + 1
    /\ UNCHANGED <<callVars, entry, input_file, valid, header, rows, pc, actual_columns,
                   parsed_data, _base_fund_name, _especies_df, result,
                   output_file>>

\* parse_file after the loop: the operations are returned
ParseFileReturn ==
    /\ entry = "parse_file" /\ pc = "rows" /\ idx > Len(rows)
    /\ pc' = "done"
    /\ result' = Returned
    /\ UNCHANGED <<callVars, entry, input_file, valid, header, rows, idx, actual_columns,
                   parsed_data, operations, _base_fund_name, _especies_df,
                   emitted, output_file>>

\* the caller of parse_file hands the operations returned to write_to_excel
WriteToExcel ==
    /\ entry = "parse_file" /\ pc = "done" /\ result = Returned
    /\ pc' = "excel"
    /\ \E w \in {write_to_excel(operations)} :
           IF w.exc # "none"
           THEN result' = Raised(w.exc) /\ UNCHANGED output_file
           ELSE /\ output_file' = [written |-> TRUE, data |-> w.val]
                /\ UNCHANGED result
    /\ UNCHANGED <<callVars, entry, input_file, valid, header, rows, idx, actual_columns,
                   parsed_data, operations, _base_fund_name, _especies_df,
                   emitted>>

Next ==
    \/ TransformBind
    \/ TransformRow
    \/ TransformFinish
    \/ ParseFileRead
    \/ ParseFileRow
    \/ ParseFileReturn
    \/ WriteToExcel

Spec == Init /\ [][Next]_vars

\* ------------------------------------------------------- paths and files
\* The entry points on any path: a file that is or is not there, with any
\* suffix, written in either encoding, with any of the headers.

HeaderPlain ==
    <<"Tipo de Liquidacion", "Fecha de Concertacion", "Tipo de Cuota",
      "Numero", "Cuotapartes", "Valor Cuota", "Inversion Neta">>

Suffixes == {".csv", ".CSV", ".Csv", ".xlsx", ".txt", ""}

WrittenHeaders ==
    {HeaderAccented, HeaderPlain, HeaderMojibake, HeaderNoNumero,
     HeaderNoCuotapartes}

Files ==
    [ exists   : BOOLEAN,
      suffix   : Suffixes,
      encoding : {"utf-8", "latin1"},
      columns  : WrittenHeaders ]

InitFile ==
    /\ fn = "idle" /\ arg = NaNCell /\ ret = Pending
    /\ entry \in {"transform_data", "parse_file"}
    /\ input_file \in Files
    /\ valid = "pending"
    /\ header = IF entry = "parse_file" THEN OpenCsv(input_file).val
                ELSE ReadInput(input_file).val
    /\ rows \in Tables(1) \cup {ExampleFile}
    /\ pc = "start"
    /\ idx = 1
    /\ actual_columns = Unbound
    /\ parsed_data = <<>>
    /\ operations = <<>>
    /\ _base_fund_name = <<>>
    /\ _especies_df = IF entry = "parse_file" THEN EspeciesLoaded
                      ELSE EspeciesAbsent
    /\ emitted = <<>>
    /\ result = [status |-> "pending", exc |-> "none"]
    /\ output_file = [written |-> FALSE, data |-> <<>>]

\* the caller asks validate_file about the file before it parses it
ValidateFile ==
    /\ entry = "parse_file" /\ pc = "start" /\ valid = "pending"
    /\ valid' = IF validate_file(input_file) THEN "True" ELSE "False"
    /\ UNCHANGED <<callVars, entry, input_file, header, rows, pc, idx,
                   actual_columns, parsed_data, operations, _base_fund_name,
                   _especies_df, emitted, result, output_file>>

NextFile == Next \/ ValidateFile

SpecFile == InitFile /\ [][NextFile]_vars

\* ================================================================ claims

IndexOfLastDigit(s) ==
    CHOOSE i \in 1..Len(s) : s[i] \in Digits /\ \A j \in (i + 1)..Len(s) : s[j] \notin Digits

NumericCall == fn \in {"_clean_numeric_value", "_clean_numeric"}

\* a text that writes no number: no digit in it, and not inf, infinity or nan
WritesNoNumber(s) ==
    /\ \A i \in 1..Len(s) : s[i] \notin Digits
    /\ Lower(SelectSeq(s, LAMBDA c : c \notin {"$", ",", " ", "-", "+"}))
           \notin {<<"n", "a", "n">>, <<"i", "n", "f">>, <<"i", "n", "f", "i", "n", "i", "t", "y">>}

\* a value that is absent (the NaN of an empty cell), empty or unparseable
AbsentOrUnparseable(v) == isna(v) \/ (v.t = "str" /\ WritesNoNumber(v.s))

\* C1: either numeric parser (BrokerDataParser._clean_numeric_value,
\* PellegriniParser._clean_numeric) never raises, and returns exactly 0.0 for
\* every value that is unparseable, empty or absent, the NaN of an empty
\* cell included.
C1_ZeroForAbsentOrUnparseable ==
    NumericCall =>
        /\ ret.exc = "none"
        /\ AbsentOrUnparseable(arg) => ret.val = Zero

\* an amount: an optional "$" before the digits, "," between digits of the
\* integer part, an optional "." with digits on both sides, blanks anywhere,
\* and an optional "-" that leads or is embedded (any place before the last
\* digit)
AmountForm(s) ==
    /\ \A i \in 1..Len(s) : s[i] \in Digits \cup {"$", ",", ".", " ", "-"}
    /\ Count(s, "$") <= 1 /\ Count(s, "-") <= 1 /\ Count(s, ".") <= 1
    /\ \E i \in 1..Len(s) : s[i] \in Digits
    /\ LET first == Find(s, Digits)
           last  == IndexOfLastDigit(s)
           dot   == Find(s, {"."})
       IN  \A i \in 1..Len(s) :
               /\ s[i] = "$" => i < first
               /\ s[i] = "," => first < i /\ i < last /\ (dot = 0 \/ i < dot)
               /\ s[i] = "." => first < i /\ i < last
               /\ s[i] = "-" => i < last

\* the number an amount denotes: its digits and point, negated by a "-"
DenotedAmount(s) ==
    LET d   == SelectSeq(s, LAMBDA c : c \in Digits \cup {"."})
        dot == Find(d, {"."})
        n   == Normalize(DigitsToNat(Remove(d, ".")),
                         IF dot = 0 THEN 0 ELSE Len(d) - dot)
    IN  IF Contains(s, "-") THEN Neg(n) ELSE n

\* C2: for every amount (optional "$", digits with "," separators, optional
\* "." decimal part, blanks, optional "-") both numeric parsers return the
\* number the digits denote, negated when a leading or embedded "-" is there.
C2_AmountIsDenotedNumber ==
    NumericCall /\ arg.t = "str" /\ AmountForm(arg.s) =>
        ret = Ok(DenotedAmount(arg.s))

\* an amount in the Latin-American form: "." between digits of the integer
\* part, one "," followed by the decimals
LatAmForm(s) ==
    /\ \A i \in 1..Len(s) : s[i] \in Digits \cup {"$", ",", ".", " "}
    /\ Count(s, "$") <= 1 /\ Count(s, ",") = 1
    /\ LET first == Find(s, Digits)
           last  == IndexOfLastDigit(s)
           comma == Find(s, {","})
       IN  /\ first # 0 /\ first < comma /\ comma < last
           /\ \A i \in 1..Len(s) :
                  /\ s[i] = "$" => i < first
                  /\ s[i] = "." => first < i /\ i < comma
                  /\ s[i] = " " => i < first

\* the same number with no separator and "." for the decimals
PlainForm(s) ==
    LET d == SelectSeq(s, LAMBDA c : c \in Digits \cup {","})
    IN  [i \in 1..Len(d) |-> IF d[i] = "," THEN "." ELSE d[i]]

SameParserOn(v) ==
    IF fn = "_clean_numeric_value" THEN _clean_numeric_value(v)
    ELSE _clean_numeric(v)

\* C3: a number's Latin-American form ("$ 1.234,00") parses to what its plain
\* form ("1234.00") parses to.
C3_LocaleFormsAgree ==
    NumericCall /\ arg.t = "str" /\ LatAmForm(arg.s) =>
        ret = SameParserOn(StrCell(PlainForm(arg.s)))

FieldsOf(s) == Split(s, "/")

IsNumeral(t) == t # <<>> /\ IsDigits(t)

\* the calendar date of a day/month/year text, and of a month/day/year one
DayFirst(s) ==
    [ y |-> DigitsToNat(FieldsOf(s)[3]),
      m |-> DigitsToNat(FieldsOf(s)[2]),
      d |-> DigitsToNat(FieldsOf(s)[1]) ]

MonthFirst(s) ==
    [ y |-> DigitsToNat(FieldsOf(s)[3]),
      m |-> DigitsToNat(FieldsOf(s)[1]),
      d |-> DigitsToNat(FieldsOf(s)[2]) ]

\* DD/MM/YYYY: two digits, two digits, four digits, a date of the calendar
WellFormedDate(s) ==
    /\ Len(FieldsOf(s)) = 3
    /\ \A i \in 1..3 : IsNumeral(FieldsOf(s)[i])
    /\ Len(FieldsOf(s)[1]) = 2 /\ Len(FieldsOf(s)[2]) = 2 /\ Len(FieldsOf(s)[3]) = 4
    /\ IsCalendarDate(DayFirst(s).y, DayFirst(s).m, DayFirst(s).d)

\* no day/month/year date at all, however loosely written (one-digit or
\* blank-padded day and month)
Malformed(s) ==
    ~ /\ Len(FieldsOf(s)) = 3
      /\ \A i \in 1..3 : IsNumeral(Strip(FieldsOf(s)[i]))
      /\ Len(Strip(FieldsOf(s)[1])) <= 2
      /\ Len(Strip(FieldsOf(s)[2])) <= 2
      /\ Len(FieldsOf(s)[3]) = 4
      /\ IsCalendarDate(DigitsToNat(FieldsOf(s)[3]),
                        DigitsToNat(Strip(FieldsOf(s)[2])),
                        DigitsToNat(Strip(FieldsOf(s)[1])))

\* C4: _format_date never raises; a well-formed DD/MM/YYYY text gives the
\* same calendar date, read day first; a missing or malformed value gives the
\* empty text.
C4_FormatDate ==
    fn = "_format_date" =>
        /\ ret.exc = "none"
        /\ arg.t = "str" /\ WellFormedDate(arg.s) =>
               /\ Len(FieldsOf(ret.val)) = 3
               /\ MonthFirst(ret.val) = DayFirst(arg.s)
        /\ arg.t # "str" \/ Malformed(arg.s) => ret.val = <<>>

\* 31/12/2023 was given and 12/31/2023 came back
C4_Witness ==
    /\ fn = "_format_date"
    /\ arg = StrCell(<<"3", "1", "/", "1", "2", "/", "2", "0", "2", "3">>)
    /\ ret = Ok(<<"1", "2", "/", "3", "1", "/", "2", "0", "2", "3">>)

\* C5: _find_column returns the first entry of the field's variant list that
\* is a column of the header, and raises when none is.
C5_FirstVariantPresent ==
    fn = "_find_column" =>
        LET names == column_mapping[arg.key]
        IN  IF \E i \in 1..Len(names) : InColumns(names[i], arg.columns)
            THEN /\ ret.exc = "none"
                 /\ \E i \in 1..Len(names) :
                        /\ ret.val = names[i]
                        /\ InColumns(names[i], arg.columns)
                        /\ \A j \in 1..(i - 1) : ~InColumns(names[j], arg.columns)
            ELSE ret.exc = "ValueError"

\* a header with only the mojibake spelling resolved to that very string
C5_Witness ==
    /\ fn = "_find_column"
    /\ arg.key = "tipo_liquidacion"
    /\ \A n \in Spellings(arg.key) :
           InColumns(n, arg.columns) <=> n = "Tipo de Liquidaci<C3><B3>n"
    /\ ret = [exc |-> "none", val |-> "Tipo de Liquidaci<C3><B3>n"]


\* some field of the table has none of its spellings in the header
RequiredColumnMissing ==
    \E k \in KeySet : \A n \in Spellings(k) : ~InColumns(n, header)

\* the records the entry point has built
Records == IF entry = "transform_data" THEN parsed_data ELSE operations

\* C6: when a required column is missing from the header, the whole file is
\* aborted with an error to the caller: no row is normalized, no record
\* sequence is returned and no output is written, in transform_data and in
\* PellegriniParser.parse_file.
C6_MissingColumnAborts ==
    RequiredColumnMissing =>
        /\ emitted = <<>> /\ Records = <<>>
        /\ ~output_file.written
        /\ pc = "done" => result.status = "raised"

\* the date cell of row i is there and is no DD/MM/YYYY date
DateUnparseable(i) ==
    LET cell == rows[i].fecha_concertacion
    IN  ~isna(cell) /\ (cell.t # "str" \/ Malformed(cell.s))

\* C7: a row whose date cell is present but is not a valid DD/MM/YYYY date is
\* skipped by transform_data and by parse_file: no record comes from it, and
\* no record carries an empty date.
C7_BadDateRowsSkipped ==
    /\ \A j \in 1..Len(emitted) : ~DateUnparseable(emitted[j])
    /\ \A j \in 1..Len(parsed_data) : parsed_data[j].agreement_date # <<>>

\* the kind-indicator cell of row i is empty or is the repeated title
Sentinel(i) ==
    \/ isna(rows[i].tipo_liquidacion)
    \/ rows[i].tipo_liquidacion = StrCell(TitleText)

\* the entry point got past the binding of the columns
ColumnsBound ==
    /\ pc \in {"rows", "done"}
    /\ entry = "transform_data" => \A k \in KeySet : actual_columns[k] # ""
    /\ entry = "parse_file" => result.status # "raised"

\* C8: a row whose 'Tipo de Liquidaci<F3>n' cell is empty or is the title
\* 'Fondo PELLEGRINI RENTA PESOS' is skipped in both variants: it gives no
\* record, and the rows after it are still processed.
C8_SentinelRowsSkipped ==
    /\ \A j \in 1..Len(emitted) : ~Sentinel(emitted[j])
    /\ ColumnsBound /\ pc = "done" => idx = Len(rows) + 1

\* what row i gives on its own: a record, or nothing
OutcomeOf(i) ==
    IF entry = "transform_data"
    THEN parse_row(RowAt(i), actual_columns)
    ELSE LET operation == _parse_row(RowAt(i), _base_fund_name, _especies_df)
         IN  IF operation = None THEN [exc |-> "skipped", val |-> None]
             ELSE [exc |-> "none", val |-> operation]

\* the rows before i that give a record, in the table's order
RowsGivingRecords(i) ==
    SelectSeq([j \in 1..(i - 1) |-> j], LAMBDA j : OutcomeOf(j).exc = "none")

\* C9: the failure of one row never aborts the file: once the columns are
\* bound the row loop reaches every row, a row that fails gives no record,
\* and every other row gives the record it gives on its own.
C9_RowFailureNeverAborts ==
    ColumnsBound =>
        /\ pc = "done" => idx = Len(rows) + 1
        /\ emitted = RowsGivingRecords(idx)
        /\ Len(Records) = Len(emitted)
        /\ \A j \in 1..Len(emitted) : Records[j] = OutcomeOf(emitted[j]).val

\* the title line raised in parse_row, and the operation after it was still
\* normalized and written
C9_Witness ==
    /\ entry = "transform_data" /\ pc = "done"
    /\ Len(rows) = 2 /\ rows[1] = TitleRow /\ rows[2] = RescateRow
    /\ parse_row(RowAt(1), actual_columns).exc = "ValueError"
    /\ emitted = <<2>>
    /\ result = Returned /\ output_file.written

\* a row that is no sentinel and whose date cell is a DD/MM/YYYY date
ValidRow(i) ==
    /\ ~Sentinel(i)
    /\ rows[i].fecha_concertacion.t = "str"
    /\ WellFormedDate(rows[i].fecha_concertacion.s)

ValidRows == SelectSeq([i \in 1..Len(rows) |-> i], ValidRow)

\* C10: end to end, on a file with its columns, the output holds exactly one
\* record for every valid row (no sentinel, a parseable date), in the order
\* of the rows, and nothing else, and the call does not raise when there is
\* such a row: the five-row file (a title line, a line with an unparseable
\* date, three operations) gives three records.
C10_OneRecordPerValidRow ==
    header = HeaderAccented /\ pc = "done" =>
        /\ emitted = ValidRows
        /\ Len(Records) = Len(ValidRows)
        /\ ValidRows # <<>> => result = Returned
        /\ rows = ExampleFile => Len(Records) = 3

\* C11: an empty result set is fatal to the file: when no row gives a
\* record transform_data raises and writes no output file, parse_file does
\* not return an empty list as a success, and write_to_excel raises when it
\* is given an empty list.
C11_EmptyResultIsFatal ==
    /\ pc = "done" /\ Records = <<>> =>
           result.status = "raised" /\ ~output_file.written
    /\ pc = "excel" /\ operations = <<>> =>
           result = Raised("ValueError") /\ ~output_file.written

\* C12: parse_file raises for the path before it reads anything: a path
\* that names no file raises FileNotFoundError, the path of a file whose
\* extension is not '.csv' in any case raises ValueError, and no list of
\* operations is returned.
C12_PathErrorsFirst ==
    entry = "parse_file" /\ pc # "start" =>
        /\ ~input_file.exists => result = Raised("FileNotFoundError")
        /\ input_file.exists /\ input_file.suffix \notin {".csv", ".CSV", ".Csv"} =>
               result = Raised("ValueError")
        /\ ~input_file.exists \/ input_file.suffix \notin {".csv", ".CSV", ".Csv"} =>
               /\ pc = "done" /\ idx = 1
               /\ operations = <<>> /\ _base_fund_name = <<>>

\* the path of a workbook that is there was refused with a ValueError, and
\* none of its rows was read
C12_Witness ==
    /\ entry = "parse_file" /\ pc = "done"
    /\ input_file.exists /\ input_file.suffix = ".xlsx"
    /\ rows = ExampleFile
    /\ result = Raised("ValueError") /\ idx = 1 /\ operations = <<>>

\* C13: the classifier gives every label the kind of the keyword its
\* uppercased form contains: COMPRA or VENTA Trade, TRANSFERENCIA
\* MonetaryFlow, DEPOSITO or RETIRO SecurityFlow, FONDO MutualFund, and
\* MonetaryFlow when there is no keyword.
C13_KeywordSelectsKind ==
    fn = "_get_operation_type" => ret.val = KeywordKind(arg)

\* C13 as amended: the classifier of the Pellegrini format never raises and
\* gives every label the one kind MutualFund, whatever keyword it contains.
C13_EveryLabelIsMutualFund ==
    fn = "_get_operation_type" => ret = [exc |-> "none", val |-> "MUTUAL_FUND"]

\* "Compra de Acciones" was classified, and the kind is MutualFund
C13_Witness ==
    /\ fn = "_get_operation_type"
    /\ arg = StrCell(<<"C", "o", "m", "p", "r", "a", " ", "d", "e", " ", "A", "c", "c", "i", "o", "n", "e", "s">>)
    /\ ret.val = "MUTUAL_FUND"

\* the label of the row the k-th record came from
LabelOf(k) == rows[emitted[k]].tipo_liquidacion

\* the name the claim gives the sub-kind of a label
SubKindOf(label) ==
    IF label = StrCell(RescateText) THEN FundRedemptionText
    ELSE IF label = StrCell(SuscripcionText) THEN FundSubscriptionText
    ELSE <<>>

\* C14: every record emitted has kind MutualFund whatever its label, and
\* its fund_operation_type is FundRedemption for the label "Rescate" and
\* FundSubscription for "Suscripcion", in the records transform_data
\* writes and in the rows write_to_excel writes.
C14_KindAndSubKind ==
    /\ \A k \in 1..Len(parsed_data) :
           /\ parsed_data[k].operation_type = "MutualFund"
           /\ LabelOf(k) = StrCell(RescateText) =>
                  parsed_data[k].fund_operation_type = "FundRedemption"
           /\ LabelOf(k) = StrCell(SuscripcionText) =>
                  parsed_data[k].fund_operation_type = "FundSubscription"
    /\ \A k \in 1..Len(operations) :
           /\ operations[k].kind = "MutualFund"
           /\ operations[k].operation_type = "MUTUAL_FUND"
    /\ entry = "parse_file" =>
           \A k \in 1..Len(output_file.data) :
               SubKindOf(LabelOf(k)) # <<>> =>
                   output_file.data[k].fund_operation_type = StrCell(SubKindOf(LabelOf(k)))

\* the five-row file was parsed by parse_file and written: a redemption, a
\* subscription and a redemption
C14_Witness ==
    /\ entry = "parse_file" /\ pc = "excel" /\ rows = ExampleFile
    /\ output_file.written /\ Len(output_file.data) = 3
    /\ LabelOf(1) = StrCell(RescateText)
    /\ output_file.data[1].fund_operation_type = StrCell(FundRedemptionText)
    /\ LabelOf(2) = StrCell(SuscripcionText)
    /\ output_file.data[2].fund_operation_type = StrCell(FundSubscriptionText)

\* the fund name and the class as the lookup normalizes them
NormalName(fund_name) ==
    IF StartsWith(Lower(Strip(fund_name)), BrokerLowerText)
    THEN Strip(ReplaceFirst(Lower(Strip(fund_name)), BrokerLowerText, <<>>))
    ELSE Lower(Strip(fund_name))

NormalClass(share_class) == ClaseText \o Lower(Strip(share_class.s))

\* the rows whose lowercased instrument contains both texts
ContainingRows(especies, fund_name, share_class) ==
    { i \in 1..Len(especies.rows) :
        /\ especies.rows[i].Instrumento.t = "str"
        /\ HasSub(Lower(especies.rows[i].Instrumento.s), NormalName(fund_name))
        /\ HasSub(Lower(especies.rows[i].Instrumento.s), NormalClass(share_class)) }

TableLoaded(especies) ==
    /\ especies.loaded
    /\ InColumns("Instrumento", especies.columns)
    /\ InColumns("Ticker", especies.columns)

FirstOf(S) == CHOOSE i \in S : \A j \in S : i <= j

\* C15: with a loaded table the lookup returns the ticker of the first row,
\* in table order, whose lowercased instrument contains both the normalized
\* fund name and "clase <class>", and the fallback name only when no row
\* contains both.
C15_FirstContainingRow ==
    fn = "_get_ticker_for_fund" /\ TableLoaded(arg.especies) /\ arg.share_class.t = "str" =>
        IF ContainingRows(arg.especies, arg.fund_name, arg.share_class) # {}
        THEN ret.val = arg.especies.rows[
                 FirstOf(ContainingRows(arg.especies, arg.fund_name, arg.share_class))].Ticker
        ELSE ret.val = StrCell(FallbackName(NormalName(arg.fund_name),
                                            NormalClass(arg.share_class)))

\* two rows contain both texts and the first one's ticker was returned
C15_TwoRowsMatch ==
    /\ fn = "_get_ticker_for_fund" /\ TableLoaded(arg.especies)
    /\ arg.share_class.t = "str"
    /\ Cardinality(ContainingRows(arg.especies, arg.fund_name, arg.share_class)) = 2
    /\ arg.especies.rows[1].Ticker # arg.especies.rows[2].Ticker
    /\ ret.val = arg.especies.rows[1].Ticker

\* the lookup finds no row for the class of row i: the table was not
\* loaded, lacks a column, or none of its instruments matches
NoTickerFor(i) ==
    \/ ~TableLoaded(_especies_df)
    \/ rows[i].tipo_cuota.t = "str" /\
           \A j \in 1..Len(_especies_df.rows) :
               \/ _especies_df.rows[j].Instrumento.t # "str"
               \/ ~StrContains(Lower(_especies_df.rows[j].Instrumento.s),
                               NormalName(_base_fund_name))
               \/ ~StrContains(Lower(_especies_df.rows[j].Instrumento.s),
                               NormalClass(rows[i].tipo_cuota))

\* C16: ticker resolution never fails a row of parse_file: every valid row
\* that was reached is emitted, and when the lookup finds no row (no match,
\* no lookup file, a lookup file without its columns) the record's fund
\* name is the fallback text, which contains the fund name and the class.
C16_TickerNeverFailsARow ==
    entry = "parse_file" /\ header = HeaderAccented /\ pc \in {"rows", "done", "excel"} =>
        /\ \A i \in 1..(idx - 1) :
               ValidRow(i) => \E k \in 1..Len(emitted) : emitted[k] = i
        /\ \A k \in 1..Len(operations) :
               NoTickerFor(emitted[k]) =>
                   /\ operations[k].fund_name.t = "str"
                   /\ StartsWith(operations[k].fund_name.s, BrokerLowerText)
                   /\ HasSub(operations[k].fund_name.s, NormalName(_base_fund_name))
                   /\ HasSub(operations[k].fund_name.s,
                             Lower(Strip(rows[emitted[k]].tipo_cuota.s)))
                   /\ HasSub(operations[k].fund_name.s,
                             NormalClass(rows[emitted[k]].tipo_cuota))

\* the five-row file was parsed with a lookup file that has no 'Ticker'
\* column, and its first operation carries the fallback name
C16_Witness ==
    /\ entry = "parse_file" /\ pc = "done" /\ header = HeaderAccented
    /\ _especies_df = EspeciesNoTicker /\ rows = ExampleFile
    /\ emitted = <<2, 4, 5>>
    /\ operations[1].fund_name = StrCell(<<"p", "e", "l", "l", "e", "g", "r", "i", "n", "i", " ", "r", "e", "n", "t", "a", " ", "p", "e", "s", "o", "s", " ", "-", " ", "c", "l", "a", "s", "e", " ", "a">>)
    /\ operations[2].fund_name = StrCell(<<"p", "e", "l", "l", "e", "g", "r", "i", "n", "i", " ", "r", "e", "n", "t", "a", " ", "p", "e", "s", "o", "s", " ", "-", " ", "c", "l", "a", "s", "e", " ", "b">>)

\* the number the entry point's numeric parser gives for a cell
ParsedCell(cell) ==
    IF entry = "transform_data" THEN _clean_numeric_value(cell).val
    ELSE _clean_numeric(cell).val

\* x >= 0, which no NaN is
NonNegative(x) == x.k # "nan" /\ x.m >= 0

\* x is the absolute value of what the cell parses to, and of the amount
\* the cell's text denotes
AbsOfCell(x, cell) ==
    /\ NonNegative(x)
    /\ x = Abs(ParsedCell(cell))
    /\ cell.t = "str" /\ AmountForm(cell.s) => x = Abs(DenotedAmount(cell.s))

\* C17: in the mutual-fund output the quantity (security_amount) and the
\* amount and total_amount (net_payment_amount) are >= 0 and are the
\* absolute value of the parsed 'Cuotapartes' and 'Inversion Neta' cells of
\* the row; in the Pellegrini records amount equals total_amount.
C17_AmountsAreAbsoluteValues ==
    /\ \A k \in 1..Len(parsed_data) :
           /\ AbsOfCell(parsed_data[k].security_amount, rows[emitted[k]].cuotapartes)
           /\ AbsOfCell(parsed_data[k].net_payment_amount, rows[emitted[k]].inversion_neta)
    /\ \A k \in 1..Len(operations) :
           /\ AbsOfCell(operations[k].quantity, rows[emitted[k]].cuotapartes)
           /\ AbsOfCell(operations[k].amount, rows[emitted[k]].inversion_neta)
           /\ AbsOfCell(operations[k].total_amount, rows[emitted[k]].inversion_neta)
           /\ operations[k].amount = operations[k].total_amount
    /\ entry = "parse_file" =>
           \A k \in 1..Len(output_file.data) :
               /\ AbsOfCell(output_file.data[k].security_amount, rows[emitted[k]].cuotapartes)
               /\ AbsOfCell(output_file.data[k].net_payment_amount,
                            rows[emitted[k]].inversion_neta)

\* parse_file read the file, found every column of COLUMN_MAPPING in it and
\* returned its operations
ParseFileParsed ==
    /\ result = Returned
    /\ \A k \in DOMAIN COLUMN_MAPPING : InColumns(COLUMN_MAPPING[k], header)

\* C18: validate_file never raises and answers True exactly when parse_file
\* can parse the file (it binds all required columns and parses the rows);
\* a UTF-8 file with accented headers is answered True.
C18_ValidateAgreesWithParse ==
    entry = "parse_file" /\ valid # "pending" =>
        /\ pc = "done" => (valid = "True" <=> ParseFileParsed)
        /\ /\ input_file.exists /\ input_file.suffix = ".csv"
           /\ input_file.encoding = "utf-8" /\ input_file.columns = HeaderAccented
           => valid = "True"

\* what the entry point gives for a row when the file read is table: its
\* record, or None when the row is skipped
OutcomeInFile(table, row) ==
    IF entry = "transform_data"
    THEN IF parse_row([columns |-> header, cells |-> row],
                      _initialize_columns(header).val).exc = "none"
         THEN parse_row([columns |-> header, cells |-> row],
                        _initialize_columns(header).val).val
         ELSE None
    ELSE _parse_row([columns |-> header, cells |-> row],
                    _extract_fund_name(header, table), _especies_df)

\* what the run gave for row i
ActualOutcome(i) ==
    IF \E k \in 1..Len(emitted) : emitted[k] = i
    THEN Records[CHOOSE k \in 1..Len(emitted) : emitted[k] = i]
    ELSE None

\* a step of the row loop changes neither the column bindings nor the
\* lookup table
RowStepKeepsTables ==
    pc = "rows" => actual_columns' = actual_columns /\ _especies_df' = _especies_df

====
